---- MODULE Spec2Model ----
(***************************************************************************)
(* Model of the query-range algebra of db/queryutil.h: FieldBound,         *)
(* FieldInterval, FieldRange, QueryPattern, FieldRangeSet,                 *)
(* FieldRangeVector (with its Iterator) and FieldRangeOrSet.               *)
(*                                                                         *)
(* BSONElement values are modelled by the integers 0 .. MAX_KEY.  The even *)
(* numbers are the values that occur as bounds of intervals (0 is MinKey,  *)
(* MAX_KEY is MaxKey); the odd numbers stand for the elements that lie     *)
(* strictly between two neighbouring bound values, so that an open         *)
(* interval (2,4) is not empty, as in the ordering of BSON elements.       *)
(***************************************************************************)
EXTENDS Integers, Sequences, FiniteSets, TLC

\* Number of ordinary (neither MinKey nor MaxKey) bound values.
NumVals == 2

\* The field names of the queries.  A field name is modelled by its rank in
\* the string order that std::map< string, FieldRange > iterates in.
FieldNames == <<"x", "y">>

VARIABLES
    range,      \* FieldRange::_intervals of the range under test
    frOp,       \* the last operation applied to it
    a,          \* FieldRangeSet::_ranges of the set operated on
    b,          \* FieldRangeSet::_ranges of the operand 'other'
    pre,        \* a as it was before the last operation
    setOp,      \* the last operation applied to a
    trivial,    \* *FieldRangeSet::__trivialRange
    keyPattern, \* IndexSpec::keyPattern: the key fields with their numbers
    direction,  \* the direction argument of FieldRangeVector's constructor
    vRanges,    \* FieldRangeVector::_ranges
    vStatus,    \* how far the constructor got, and how it ended
    outKey,     \* the last result of startKey() or endKey()
    counts,     \* intervals().size() of the range of each key field
    sizeStatus, \* how the constructor's uassert on size() ended
    qp,         \* a QueryPattern (*this of operator< and operator==)
    otherQp,    \* a QueryPattern (other)
    cmpResult,  \* what qp == otherQp computed: less, more, the assertion, the result
    baseSet,    \* FieldRangeOrSet::_baseSet
    orSets,     \* FieldRangeOrSet::_orSets
    originalOrSets, \* FieldRangeOrSet::_originalOrSets
    orClauses,  \* the $or clauses the FieldRangeOrSet was constructed from
    top,        \* the result of the last topFrs(), <<>> once its clause is popped
    orPc,       \* the caller's next call: "top", "pop", or "done"
    seenTop,    \* the results of topFrs() for the clauses popped so far
    seenIndex,  \* those results, restricted to the fields of the index specs
    itRanges,   \* Iterator::_v._ranges, every key field ascending
    curr,       \* the key the scanner sits on, <<>> past the last key
    it_i,       \* Iterator::_i, counted from 1: 0 is "before first"
    it_cmp,     \* Iterator::_cmp
    it_inc,     \* Iterator::_inc
    it_after,   \* Iterator::_after
    itRet,      \* what the last advance( curr ) returned, -3 before the first
    itPc,       \* "advance": the scanner calls next; "move": it moves; "done"
    cachedEquality, \* FieldInterval::_cachedEquality of each interval of range
    eqResult,   \* what the last equality() or inQuery() returned
    sortSpec,   \* the sort specification given to normalizeSort
    sortOp,     \* "input", or what was normalized: the spec, its result, its negation
    sortOut,    \* what normalizeSort returned
    advTuples,  \* the values of _i that setZero and advance() produced with ok()
    advTrue,    \* how many calls of advance() returned true
    advRet      \* what the last advance() returned, <<>> before the first

frVars == <<range, frOp>>
setVars == <<a, b, pre, setOp, trivial>>
vecVars == <<keyPattern, direction, vRanges, vStatus, outKey>>
sizeVars == <<counts, sizeStatus>>
patVars == <<qp, otherQp, cmpResult>>
orVars == <<baseSet, orSets, originalOrSets, orClauses, top, orPc, seenTop, seenIndex>>
itVars == <<itRanges, curr, it_i, it_cmp, it_inc, it_after, itRet, itPc>>
cacheVars == <<cachedEquality, eqResult>>
sortVars == <<sortSpec, sortOp, sortOut>>
advVars == <<advTuples, advTrue, advRet>>
vars == <<frVars, setVars, vecVars, sizeVars, patVars, orVars, itVars, cacheVars,
          sortVars, advVars>>

\* What the actions of one specification leave alone.
notFR == <<setVars, vecVars, sizeVars, patVars, orVars, itVars, cacheVars,
    sortVars, advVars>>
notSet == <<frVars, vecVars, sizeVars, patVars, orVars, itVars, cacheVars,
    sortVars, advVars>>
notVec == <<frVars, sizeVars, patVars, orVars, itVars, cacheVars,
    sortVars, advVars>>
notSize == <<frVars, setVars, vecVars, patVars, orVars, itVars, cacheVars,
    sortVars, advVars>>
notPat == <<frVars, setVars, vecVars, sizeVars, orVars, itVars, cacheVars,
    sortVars, advVars>>
notOr == <<frVars, setVars, vecVars, sizeVars, patVars, itVars, cacheVars,
    sortVars, advVars>>
notIt == <<frVars, setVars, vecVars, sizeVars, patVars, orVars, cacheVars,
    sortVars, advVars>>
notCache == <<setVars, vecVars, sizeVars, patVars, orVars, itVars,
    sortVars, advVars>>
notSort == <<frVars, setVars, vecVars, sizeVars, patVars, orVars, itVars, cacheVars,
    advVars>>
notAdv == <<frVars, setVars, vecVars, sizeVars, patVars, orVars, cacheVars, sortVars,
    curr, it_cmp, it_inc, it_after, itRet, itPc>>

----------------------------------------------------------------------------
(* Values *)

MIN_KEY == 0
MAX_KEY == 2 * NumVals + 2
Points == MIN_KEY .. MAX_KEY
BoundVals == {p \in Points : p % 2 = 0}
OrdinaryVals == BoundVals \ {MIN_KEY, MAX_KEY}

\* BSONElement::woCompare( other, false ): the sign of the comparison.
woCompare(x, y) == IF x < y THEN -1 ELSE IF x = y THEN 0 ELSE 1

----------------------------------------------------------------------------
(* FieldBound, FieldInterval *)

FieldBound(v, inc) == [bound |-> v, inclusive |-> inc]

FieldInterval(lv, li, uv, ui) ==
    [lower |-> FieldBound(lv, li), upper |-> FieldBound(uv, ui)]

\* FieldInterval( const BSONElement& e ): the equality interval [e, e].
FieldIntervalOf(e) == FieldInterval(e, TRUE, e, TRUE)

flipInclusive(fb) == [fb EXCEPT !.inclusive = ~fb.inclusive]

strictValid(fi) ==
    LET cmp == woCompare(fi.lower.bound, fi.upper.bound)
    IN  cmp < 0 \/ (cmp = 0 /\ fi.lower.inclusive /\ fi.upper.inclusive)

\* The elements an interval admits.
Within(fi, p) ==
    /\ fi.lower.bound < p \/ (fi.lower.bound = p /\ fi.lower.inclusive)
    /\ p < fi.upper.bound \/ (p = fi.upper.bound /\ fi.upper.inclusive)

IntervalPoints(fi) == {p \in Points : Within(fi, p)}

----------------------------------------------------------------------------
(* FieldRange: a sequence of FieldIntervals *)

RangePoints(r) == UNION {IntervalPoints(r[k]) : k \in 1 .. Len(r)}

\* The maximal runs of consecutive elements of a set of points.
Runs(S) ==
    {run \in S \X S :
        /\ run[1] <= run[2]
        /\ \A p \in run[1] .. run[2] : p \in S
        /\ (run[1] - 1) \notin S
        /\ (run[2] + 1) \notin S}

RunInterval(run) ==
    [lower |-> IF run[1] % 2 = 0 THEN FieldBound(run[1], TRUE)
                                 ELSE FieldBound(run[1] - 1, FALSE),
     upper |-> IF run[2] % 2 = 0 THEN FieldBound(run[2], TRUE)
                                 ELSE FieldBound(run[2] + 1, FALSE)]

\* finishOperation: the sorted, coalesced interval list of a set of
\* elements, strictly invalid intervals dropped.
finishOperation(S) ==
    LET runs == Runs(S)
        nth(k) == CHOOSE run \in runs :
                      Cardinality({q \in runs : q[1] < run[1]}) = k - 1
    IN  [k \in 1 .. Cardinality(runs) |-> RunInterval(nth(k))]

\* FieldRange(): the default range, the single interval [MinKey, MaxKey].
TrivialRange == <<FieldInterval(MIN_KEY, TRUE, MAX_KEY, TRUE)>>

\* FieldRange( e, isNot, optimize ) for one predicate atom.
AtomPoints(op, v) ==
    CASE op = "$eq"  -> {v}
      [] op = "$lt"  -> {p \in Points : p < v}
      [] op = "$lte" -> {p \in Points : p <= v}
      [] op = "$gt"  -> {p \in Points : p > v}
      [] op = "$gte" -> {p \in Points : p >= v}
      [] op = "$ne"  -> Points \ {v}

AtomOps == {"$eq", "$lt", "$lte", "$gt", "$gte", "$ne"}

FieldRangeOf(op, v, isNot) ==
    finishOperation(IF isNot THEN Points \ AtomPoints(op, v)
                             ELSE AtomPoints(op, v))

\* The ranges a single predicate atom constructs, with the default range.
ConstructedRanges ==
    {TrivialRange} \cup
    {FieldRangeOf(op, v, n) : op \in AtomOps, v \in OrdinaryVals, n \in BOOLEAN}

FieldRangeAnd(r, other) == finishOperation(RangePoints(r) \cap RangePoints(other))

FieldRangeOr(r, other) == finishOperation(RangePoints(r) \cup RangePoints(other))

FieldRangeMinus(r, other) == finishOperation(RangePoints(r) \ RangePoints(other))

\* One bound at or below another, as lower bounds / as upper bounds.
LowerLeq(x, y) == x.bound < y.bound \/ (x.bound = y.bound /\ (x.inclusive \/ ~y.inclusive))
UpperLeq(x, y) == x.bound < y.bound \/ (x.bound = y.bound /\ (y.inclusive \/ ~x.inclusive))

\* operator<=: every interval of r lies inside one interval of other.
FieldRangeSubset(r, other) ==
    \A k \in 1 .. Len(r) : \E m \in 1 .. Len(other) :
        LowerLeq(other[m].lower, r[k].lower) /\ UpperLeq(r[k].upper, other[m].upper)

empty(r) == Len(r) = 0

makeEmpty(r) == <<>>

min(r) == r[1].lower.bound
max(r) == r[Len(r)].upper.bound
minInclusive(r) == r[1].lower.inclusive
maxInclusive(r) == r[Len(r)].upper.inclusive

setExclusiveBoundsLowerOnly(r) ==
    [k \in 1 .. Len(r) |-> [r[k] EXCEPT !.lower.inclusive = FALSE]]

setExclusiveBounds(r) ==
    [k \in 1 .. Len(r) |->
        [r[k] EXCEPT !.lower.inclusive = FALSE, !.upper.inclusive = FALSE]]

nontrivial(r) ==
    /\ ~empty(r)
    /\ \/ Len(r) # 1
       \/ woCompare(MIN_KEY, min(r)) # 0
       \/ woCompare(MAX_KEY, max(r)) # 0

----------------------------------------------------------------------------
(* Specification SpecFR: one FieldRange under its mutating operations *)

\* The operands of the binary operations: constructed ranges, also after
\* setExclusiveBounds.
Operands == ConstructedRanges \cup {setExclusiveBounds(r) : r \in ConstructedRanges}

\* The state of the parts of the model a specification does not exercise.
IdleFR == range = <<>> /\ frOp = "idle"
IdleSet ==
    /\ a = <<>> /\ b = <<>> /\ pre = <<>>
    /\ setOp = "idle" /\ trivial = <<>>

IdleVec ==
    /\ keyPattern = <<>> /\ direction = 0 /\ vRanges = <<>>
    /\ vStatus = "idle" /\ outKey = <<>>
IdleSize == counts = <<>> /\ sizeStatus = "idle"
IdlePat == qp = <<>> /\ otherQp = <<>> /\ cmpResult = <<>>
IdleOr ==
    /\ baseSet = <<>> /\ orSets = <<>> /\ originalOrSets = <<>>
    /\ orClauses = <<>> /\ top = <<>> /\ orPc = "idle"
    /\ seenTop = <<>> /\ seenIndex = <<>>
IdleIt ==
    /\ itRanges = <<>> /\ curr = <<>> /\ it_i = <<>> /\ it_cmp = <<>>
    /\ it_inc = <<>> /\ it_after = FALSE /\ itRet = -3 /\ itPc = "idle"
IdleCache == cachedEquality = <<>> /\ eqResult = <<>>
IdleSort == sortSpec = <<>> /\ sortOp = "idle" /\ sortOut = <<>>
IdleAdv == advTuples = <<>> /\ advTrue = 0 /\ advRet = <<>>

InitFR ==
    /\ range \in ConstructedRanges
    /\ frOp = "construct"
    /\ IdleSet /\ IdleVec /\ IdleSize /\ IdlePat /\ IdleOr /\ IdleIt /\ IdleCache
    /\ IdleSort /\ IdleAdv

FRAnd ==
    \E other \in Operands :
        /\ range' = FieldRangeAnd(range, other)
        /\ frOp' = "&="
        /\ UNCHANGED notFR

FROr ==
    \E other \in Operands :
        /\ range' = FieldRangeOr(range, other)
        /\ frOp' = "|="
        /\ UNCHANGED notFR

FRMinus ==
    \E other \in Operands :
        /\ range' = FieldRangeMinus(range, other)
        /\ frOp' = "-="
        /\ UNCHANGED notFR

FRSetExclusiveBounds ==
    /\ range' = setExclusiveBounds(range)
    /\ frOp' = "setExclusiveBounds"
    /\ UNCHANGED notFR

FRMakeEmpty ==
    /\ range' = makeEmpty(range)
    /\ frOp' = "makeEmpty"
    /\ UNCHANGED notFR

NextFR ==
    \/ FRAnd
    \/ FROr
    \/ FRMinus
    \/ FRSetExclusiveBounds
    \/ FRMakeEmpty

SpecFR == InitFR /\ [][NextFR]_vars

----------------------------------------------------------------------------
(* Normal form of an interval list *)

\* Consecutive intervals in ascending order with a gap between them: they
\* neither overlap nor touch at an endpoint that one of them includes.
Apart(x, y) ==
    \/ x.upper.bound < y.lower.bound
    \/ (x.upper.bound = y.lower.bound /\ ~x.upper.inclusive /\ ~y.lower.inclusive)

SortedDisjointUnmergeable(r) ==
    \A k \in 1 .. Len(r) - 1 :
        /\ LowerLeq(r[k].lower, r[k + 1].lower)
        /\ Apart(r[k], r[k + 1])

Normalized(r) ==
    /\ SortedDisjointUnmergeable(r)
    /\ \A k \in 1 .. Len(r) : strictValid(r[k])

\* C4 (as claimed): after construction and after any sequence of &=, |=,
\* -=, setExclusiveBounds and makeEmpty the interval list is sorted,
\* pairwise disjoint, without mergeable neighbours, and every interval is
\* strictValid().
C4_Original == Normalized(range)

\* C4 (amended): the list is always sorted, pairwise disjoint and without
\* mergeable neighbours; every interval is strictValid() except that right
\* after setExclusiveBounds an interval whose bounds have the same value is
\* the exclusive (v, v), which is not strictValid().
C4_NormalizedExceptExclusive ==
    /\ SortedDisjointUnmergeable(range)
    /\ frOp # "setExclusiveBounds" => \A k \in 1 .. Len(range) : strictValid(range[k])
    /\ frOp = "setExclusiveBounds" =>
          \A k \in 1 .. Len(range) :
              /\ ~range[k].lower.inclusive /\ ~range[k].upper.inclusive
              /\ strictValid(range[k]) <=> range[k].lower.bound < range[k].upper.bound

\* A subtraction has split the range in two and setExclusiveBounds then
\* acted on it.
C4_Witness ==
    /\ frOp = "setExclusiveBounds"
    /\ Len(range) >= 2
    /\ \E k \in 1 .. Len(range) : range[k].lower.bound = range[k].upper.bound

----------------------------------------------------------------------------
(* FieldRangeSet: a map from field names to FieldRanges *)

Fields == 1 .. Len(FieldNames)

\* The keys of a map in iteration order.
RECURSIVE SortedKeys(_)
SortedKeys(D) ==
    IF D = {} THEN <<>>
    ELSE LET k == CHOOSE x \in D : \A y \in D : x <= y
         IN  <<k>> \o SortedKeys(D \ {k})

hasRange(frs, f) == f \in DOMAIN frs

\* const FieldRange &range( fieldName ) const, given the current value of
\* the trivial range singleton.
rangeOf(frs, f, triv) == IF f \in DOMAIN frs THEN frs[f] ELSE triv

nNontrivialRanges(frs) == Cardinality({f \in DOMAIN frs : nontrivial(frs[f])})

matchPossible(frs) == \A f \in DOMAIN frs : ~empty(frs[f])

\* FieldRangeSet::makeEmpty
makeEmptySet(frs) == [f \in DOMAIN frs |-> makeEmpty(frs[f])]

\* The loop of operator-=: i and j walk the two maps in key order.  The
\* result tells whether the loop returned *this early, where j stopped,
\* nUnincluded and unincludedKey.
RECURSIVE MinusWalk(_, _, _, _, _, _, _, _)
MinusWalk(this, other, ki, kj, i, j, nUnincluded, unincludedKey) ==
    IF nUnincluded < 2 /\ i <= Len(ki) /\ j <= Len(kj)
    THEN IF ki[i] = kj[j]
         THEN IF FieldRangeSubset(this[ki[i]], other[kj[j]])
              THEN MinusWalk(this, other, ki, kj, i + 1, j + 1,
                             nUnincluded, unincludedKey)
              ELSE MinusWalk(this, other, ki, kj, i + 1, j + 1,
                             nUnincluded + 1, ki[i])
         ELSE IF ki[i] < kj[j]
         THEN MinusWalk(this, other, ki, kj, i + 1, j,
                        nUnincluded, unincludedKey)
         ELSE [early |-> TRUE, j |-> j,
               nUnincluded |-> nUnincluded, unincludedKey |-> unincludedKey]
    ELSE [early |-> FALSE, j |-> j,
          nUnincluded |-> nUnincluded, unincludedKey |-> unincludedKey]

\* operator-= without the two returns for nUnincluded > 1 and for a field
\* of other that this lacks: it subtracts along the last unincluded key.
FieldRangeSetMinusAlways(this, other) ==
    LET w == MinusWalk(this, other, SortedKeys(DOMAIN this),
                       SortedKeys(DOMAIN other), 1, 1, 0, 0)
    IN  IF w.nUnincluded = 0 THEN makeEmptySet(this)
        ELSE [this EXCEPT ![w.unincludedKey] =
                 FieldRangeMinus(this[w.unincludedKey], other[w.unincludedKey])]

\* const FieldRangeSet &operator-=( const FieldRangeSet &other )
FieldRangeSetMinus(this, other) ==
    LET kj == SortedKeys(DOMAIN other)
        w == MinusWalk(this, other, SortedKeys(DOMAIN this), kj, 1, 1, 0, 0)
    IN  IF w.early THEN this
        ELSE IF w.j <= Len(kj) THEN this
        ELSE IF w.nUnincluded > 1 THEN this
        ELSE IF w.nUnincluded = 0 THEN makeEmptySet(this)
        ELSE [this EXCEPT ![w.unincludedKey] =
                 FieldRangeMinus(this[w.unincludedKey], other[w.unincludedKey])]

\* other._ranges after operator-=: the map is mutable and the subtraction
\* reads it with operator[], which would insert a default range for a key
\* the map lacks.
otherAfterMinus(this, other) ==
    LET kj == SortedKeys(DOMAIN other)
        w == MinusWalk(this, other, SortedKeys(DOMAIN this), kj, 1, 1, 0, 0)
    IN  IF w.early \/ w.j <= Len(kj) \/ w.nUnincluded # 1 THEN other
        ELSE [f \in DOMAIN other \cup {w.unincludedKey} |->
                 IF f \in DOMAIN other THEN other[f] ELSE TrivialRange]

\* The loops of operator&=: the map after i and j have walked both maps.
RECURSIVE AndWalk(_, _, _, _, _)
AndWalk(this, other, kj, i, j) ==
    LET ki == SortedKeys(DOMAIN this)
    IN  IF i <= Len(ki) /\ j <= Len(kj)
        THEN IF ki[i] = kj[j]
             THEN AndWalk([this EXCEPT ![ki[i]] =
                              FieldRangeAnd(this[ki[i]], other[kj[j]])],
                          other, kj, i + 1, j + 1)
             ELSE IF ki[i] < kj[j]
             THEN AndWalk(this, other, kj, i + 1, j)
             \* _ranges[ j->first ] = j->second inserts a key before i
             ELSE AndWalk([f \in DOMAIN this \cup {kj[j]} |->
                              IF f = kj[j] THEN other[f] ELSE this[f]],
                          other, kj, i + 1, j + 1)
        ELSE IF j <= Len(kj)
        THEN AndWalk([f \in DOMAIN this \cup {kj[j]} |->
                         IF f = kj[j] THEN other[f] ELSE this[f]],
                     other, kj, i + 1, j + 1)
        ELSE this

\* operator&= without its second loop: the fields of other that sort after
\* the last field of this are not copied.
FieldRangeSetAndNoTail(this, other) ==
    [f \in DOMAIN this \cup
           {g \in DOMAIN other : \E h \in DOMAIN this : g < h} |->
        IF f \in DOMAIN this /\ f \in DOMAIN other
        THEN FieldRangeAnd(this[f], other[f])
        ELSE IF f \in DOMAIN this THEN this[f] ELSE other[f]]

\* const FieldRangeSet &operator&=( const FieldRangeSet &other )
FieldRangeSetAnd(this, other) ==
    AndWalk(this, other, SortedKeys(DOMAIN other), 1, 1)

----------------------------------------------------------------------------
(* Specification Spec: a -= b and a &= b on FieldRangeSets *)

\* The ranges the fields of a query can have: those of one predicate atom
\* and the empty range of two contradicting atoms.
QueryRanges == ConstructedRanges \cup {<<>>}

\* FieldRangeSet( ns, query ): one range for each field the query names.
QuerySets == UNION {[D -> QueryRanges] : D \in SUBSET Fields}

Init ==
    /\ a \in QuerySets
    /\ b \in QuerySets
    /\ pre = a
    /\ setOp = "construct"
    /\ trivial = TrivialRange
    /\ IdleFR /\ IdleVec /\ IdleSize /\ IdlePat /\ IdleOr /\ IdleIt /\ IdleCache
    /\ IdleSort /\ IdleAdv

SetMinus ==
    /\ a' = FieldRangeSetMinus(a, b)
    /\ b' = otherAfterMinus(a, b)
    /\ pre' = a
    /\ setOp' = "-="
    /\ UNCHANGED trivial
    /\ UNCHANGED notSet

SetAnd ==
    /\ a' = FieldRangeSetAnd(a, b)
    /\ pre' = a
    /\ setOp' = "&="
    /\ UNCHANGED <<b, trivial>>
    /\ UNCHANGED notSet

Next ==
    \/ SetMinus
    \/ SetAnd

Spec == Init /\ [][Next]_vars

\* A document, as far as ranges see it: one element for each field.
Documents == [Fields -> Points]

\* A FieldRangeSet admits a document when every field's element lies in the
\* field's range; a field without an entry is not constrained.
Admits(frs, doc) ==
    \A f \in DOMAIN frs : \E k \in 1 .. Len(frs[f]) : Within(frs[f][k], doc[f])

\* C1: a -= b keeps every document that a admitted and b does not admit.
C1_DifferenceIsSuperset ==
    setOp = "-=" =>
        \A doc \in Documents :
            (Admits(pre, doc) /\ ~Admits(b, doc)) => Admits(a, doc)

\* The subtraction took place along one field and removed documents, while
\* some documents of a outside b remain.
C1_Witness ==
    /\ setOp = "-="
    /\ a # pre
    /\ \E doc \in Documents : Admits(pre, doc) /\ ~Admits(a, doc)
    /\ \E doc \in Documents : Admits(pre, doc) /\ ~Admits(b, doc)

\* C7: after a &= b the range of every field is the intersection of the
\* ranges the field had in a and has in b, a missing field counting as the
\* trivial range; a field of only one operand keeps that operand's range.
C7_AndIsFieldwiseIntersection ==
    setOp = "&=" =>
        /\ DOMAIN a = DOMAIN pre \cup DOMAIN b
        /\ \A f \in Fields :
              /\ RangePoints(rangeOf(a, f, TrivialRange)) =
                    RangePoints(rangeOf(pre, f, TrivialRange)) \cap
                    RangePoints(rangeOf(b, f, TrivialRange))
              /\ (f \in DOMAIN pre /\ f \notin DOMAIN b) => a[f] = pre[f]
              /\ (f \in DOMAIN b /\ f \notin DOMAIN pre) => a[f] = b[f]

\* An intersection in which one field came from a only, or one from b only,
\* and a shared field was narrowed without becoming empty.
C7_Witness ==
    /\ setOp = "&="
    /\ \E f \in DOMAIN b : f \notin DOMAIN pre
    /\ \E f \in DOMAIN pre \cap DOMAIN b : a[f] # pre[f] /\ a[f] # b[f] /\ ~empty(a[f])

\* C10 (as claimed): nontrivial() is true exactly when the range is not the
\* single interval [MinKey, MaxKey], the empty range included, and
\* nNontrivialRanges() counts exactly the fields whose range is not that
\* interval.
C10_NontrivialIffNotUniversal ==
    /\ \A f \in DOMAIN a : nontrivial(a[f]) <=> a[f] # TrivialRange
    /\ nNontrivialRanges(a) = Cardinality({f \in DOMAIN a : a[f] # TrivialRange})

\* b has no field that a lacks, and every field they share has a's range
\* contained in b's: no field is unincluded.
ZeroUnincluded(this, other) ==
    /\ DOMAIN other \subseteq DOMAIN this
    /\ \A f \in DOMAIN other : FieldRangeSubset(this[f], other[f])

\* C11 (as claimed): when a -= b finds zero unincluded fields, a is
\* unsatisfiable afterwards, matchPossible() is false, also for sets with no
\* field entries at all.
C11_ZeroUnincludedIsUnsatisfiable ==
    (setOp = "-=" /\ ZeroUnincluded(pre, b)) => ~matchPossible(a)

\* The shared fields whose range in this is not contained in other's.
Unincluded(this, other) ==
    {f \in DOMAIN this \cap DOMAIN other : ~FieldRangeSubset(this[f], other[f])}

\* other has a field that this lacks.
HasFieldLacking(this, other) == \E f \in DOMAIN other : f \notin DOMAIN this

\* C12: a -= b leaves every field range of a unchanged when b has a field
\* that a lacks or when more than one shared field has a's range not
\* contained in b's; otherwise, when exactly one shared field is not
\* contained, only that field's range changes, to its old value minus b's
\* range for the field, and every other field's range is unchanged; b's
\* ranges are never changed.
C12_MinusFrame ==
    [][setOp' = "-=" =>
          /\ b' = b
          /\ DOMAIN a' = DOMAIN a
          /\ (HasFieldLacking(a, b) \/ Cardinality(Unincluded(a, b)) > 1)
                => a' = a
          /\ (~HasFieldLacking(a, b) /\ Cardinality(Unincluded(a, b)) = 1)
                => \A f \in DOMAIN a :
                      IF f \in Unincluded(a, b)
                      THEN /\ a'[f] = FieldRangeMinus(a[f], b[f])
                           /\ RangePoints(a'[f]) =
                                 RangePoints(a[f]) \ RangePoints(b[f])
                      ELSE a'[f] = a[f]]_vars

\* A subtraction along one of two fields: that field's range was narrowed
\* without becoming empty, the other field kept its range.
C12_Witness ==
    /\ setOp = "-="
    /\ ~HasFieldLacking(pre, b)
    /\ \E f, g \in DOMAIN pre :
          /\ Unincluded(pre, b) = {f}
          /\ g # f /\ g \in DOMAIN b
          /\ a[f] # pre[f] /\ ~empty(a[f])
          /\ a[g] = pre[g]

----------------------------------------------------------------------------
(* Specification SpecRange: the ranges of a FieldRangeSet reached through  *)
(* FieldRange &range( fieldName ) and changed in place                     *)

\* The effect of changing the range that range( f ) refers to into r: the
\* map entry of f, or, when the map has no entry, the shared trivial range.
\* The result is the pair of the map and the trivial range afterwards.
AssignThroughRange(frs, triv, f, r) ==
    IF f \in DOMAIN frs
    THEN [ranges |-> [frs EXCEPT ![f] = r], trivialRange |-> triv]
    ELSE [ranges |-> frs, trivialRange |-> r]

InitRange ==
    /\ a \in QuerySets
    /\ b = <<>>
    /\ pre = <<>>
    /\ setOp = "construct"
    /\ trivial = TrivialRange
    /\ IdleFR /\ IdleVec /\ IdleSize /\ IdlePat /\ IdleOr /\ IdleIt /\ IdleCache
    /\ IdleSort /\ IdleAdv

RangeSetExclusiveBounds ==
    \E f \in Fields :
        LET res == AssignThroughRange(a, trivial, f,
                       setExclusiveBounds(rangeOf(a, f, trivial)))
        IN  /\ a' = res.ranges
            /\ trivial' = res.trivialRange
            /\ setOp' = "range.setExclusiveBounds"
            /\ UNCHANGED <<b, pre>>
            /\ UNCHANGED notSet

RangeMakeEmpty ==
    \E f \in Fields :
        LET res == AssignThroughRange(a, trivial, f,
                       makeEmpty(rangeOf(a, f, trivial)))
        IN  /\ a' = res.ranges
            /\ trivial' = res.trivialRange
            /\ setOp' = "range.makeEmpty"
            /\ UNCHANGED <<b, pre>>
            /\ UNCHANGED notSet

RangeAnd ==
    \E f \in Fields, other \in ConstructedRanges :
        LET res == AssignThroughRange(a, trivial, f,
                       FieldRangeAnd(rangeOf(a, f, trivial), other))
        IN  /\ a' = res.ranges
            /\ trivial' = res.trivialRange
            /\ setOp' = "range.&="
            /\ UNCHANGED <<b, pre>>
            /\ UNCHANGED notSet

RangeMinus ==
    \E f \in Fields, other \in ConstructedRanges :
        LET res == AssignThroughRange(a, trivial, f,
                       FieldRangeMinus(rangeOf(a, f, trivial), other))
        IN  /\ a' = res.ranges
            /\ trivial' = res.trivialRange
            /\ setOp' = "range.-="
            /\ UNCHANGED <<b, pre>>
            /\ UNCHANGED notSet

NextRange ==
    \/ RangeSetExclusiveBounds
    \/ RangeMakeEmpty
    \/ RangeAnd
    \/ RangeMinus

SpecRange == InitRange /\ [][NextRange]_vars

\* C6 (as claimed): the trivial range that range( fieldName ) returns for a
\* field without an entry is the single inclusive interval [MinKey, MaxKey]
\* in every reachable state.
C6_TrivialRangeNeverChanges == trivial = TrivialRange

----------------------------------------------------------------------------
(* FieldRangeVector *)

\* FieldRange::reverse without the reversal of the order of the intervals.
reverseBoundsOnly(r) ==
    [k \in 1 .. Len(r) |-> [lower |-> r[k].upper, upper |-> r[k].lower]]

\* void FieldRange::reverse( FieldRange &ret ) const: the intervals of ret.
reverse(r) ==
    [k \in 1 .. Len(r) |->
        [lower |-> r[Len(r) + 1 - k].upper, upper |-> r[Len(r) + 1 - k].lower]]

\* The limit of the constructor's uassert 13385.
CombinatorialLimit == 1000000

\* A 64 bit integer is a sequence of eight bytes, the lowest first.
One64 == <<1, 0, 0, 0, 0, 0, 0, 0>>

\* ret *= n on 64 bits: the bytes from the k-th on, the carry out of the
\* highest byte being lost.
RECURSIVE MulBytes(_, _, _, _)
MulBytes(x, n, k, carry) ==
    IF k > Len(x) THEN <<>>
    ELSE LET t == x[k] * n + carry
         IN  <<t % 256>> \o MulBytes(x, n, k + 1, t \div 256)

\* long long size(), given intervals().size() of each range: the product
\* computed in unsigned 64 bit arithmetic and stored in a long long.
RECURSIVE size(_, _, _)
size(sizes, k, ret) ==
    IF k > Len(sizes) THEN ret
    ELSE size(sizes, k + 1, MulBytes(ret, sizes[k], 1, 0))

\* size() < 1000000 for a long long given by its bytes.
BelowLimit(x) ==
    \/ x[8] >= 128
    \/ /\ \A k \in 4 .. 8 : x[k] = 0
       /\ x[1] + 256 * x[2] + 65536 * x[3] < CombinatorialLimit

\* The outcome of uassert( 13385, ..., size() < 1000000 ).
SizeCheck(sizes) ==
    IF BelowLimit(size(sizes, 1, One64)) THEN "ok" ELSE "uassert13385"

\* The product of the interval counts as a number, cut off at the limit.
RECURSIVE ProductUpToLimit(_, _, _)
ProductUpToLimit(sizes, k, acc) ==
    IF k > Len(sizes) THEN acc
    ELSE ProductUpToLimit(sizes, k + 1,
             IF acc >= (CombinatorialLimit + sizes[k] - 1) \div sizes[k]
             THEN CombinatorialLimit
             ELSE acc * sizes[k])

----------------------------------------------------------------------------
(* Specification SpecSize: the constructor's check of size() *)

\* The largest number of fields of a key pattern.
MaxKeyFields == 4

\* Interval counts of the ranges: one interval, and $in lists of 2, 1000
\* and 65536 values.
IntervalCounts == {1, 2, 1000, 65536}

InitSize ==
    /\ counts \in UNION {[1 .. n -> IntervalCounts] : n \in 1 .. MaxKeyFields}
    /\ sizeStatus = "input"
    /\ IdleFR /\ IdleSet /\ IdleVec /\ IdlePat /\ IdleOr /\ IdleIt /\ IdleCache
    /\ IdleSort /\ IdleAdv

ConstructSized ==
    /\ sizeStatus = "input"
    /\ sizeStatus' = SizeCheck(counts)
    /\ UNCHANGED counts
    /\ UNCHANGED notSize

NextSize == ConstructSized

SpecSize == InitSize /\ [][NextSize]_vars

\* C5 (as claimed): the constructor fails with error 13385 exactly when the
\* product of the interval counts of the key fields is >= 1,000,000.
C5_FailsExactlyAtLimit ==
    sizeStatus # "input" =>
        (sizeStatus = "uassert13385" <=>
            ProductUpToLimit(counts, 1, 1) >= CombinatorialLimit)

----------------------------------------------------------------------------
(* Specification SpecVector: FieldRangeVector( frs, indexSpec, direction ), *)
(* startKey() and endKey()                                                  *)

\* e.number() of a key pattern element (0 when it is not numeric) and the
\* direction argument.
KeyNumbers == {-1, 0, 1}
Directions == {-1, 0, 1}

KeyPatterns ==
    UNION {{kp \in [1 .. n -> [field : Fields, number : KeyNumbers]] :
               \A i, j \in 1 .. n : i # j => kp[i].field # kp[j].field} :
           n \in 1 .. Cardinality(Fields)}

\* bool forward of the constructor's loop.
forward(number, dir) ==
    (IF number >= 0 THEN 1 ELSE -1) * (IF dir >= 0 THEN 1 ELSE -1) > 0

\* _ranges after the constructor's loop over the key pattern.
VectorRanges(frs, triv, kp, dir) ==
    [k \in 1 .. Len(kp) |->
        IF forward(kp[k].number, dir)
        THEN rangeOf(frs, kp[k].field, triv)
        ELSE reverse(rangeOf(frs, kp[k].field, triv))]

\* BSONObj startKey() const / BSONObj endKey() const: the key's elements.
startKey(v) == [k \in 1 .. Len(v) |-> v[k][1].lower.bound]
endKey(v) == [k \in 1 .. Len(v) |-> v[k][Len(v[k])].upper.bound]

InitVector ==
    /\ a \in QuerySets
    /\ keyPattern \in KeyPatterns
    /\ direction \in Directions
    /\ vRanges = <<>>
    /\ vStatus = "input"
    /\ outKey = <<>>
    /\ b = <<>> /\ pre = <<>> /\ setOp = "idle"
    /\ trivial = TrivialRange
    /\ IdleFR /\ IdleSize /\ IdlePat /\ IdleOr /\ IdleIt /\ IdleCache
    /\ IdleSort /\ IdleAdv

\* The constructor: assert( !_ranges.back().empty() ) in the loop, then the
\* uassert on size().
Construct ==
    /\ vStatus = "input"
    /\ LET v == VectorRanges(a, trivial, keyPattern, direction)
       IN  IF \E k \in 1 .. Len(v) : empty(v[k])
           THEN vStatus' = "assert" /\ vRanges' = <<>>
           ELSE /\ vStatus' = SizeCheck([k \in 1 .. Len(v) |-> Len(v[k])])
                /\ vRanges' = v
    /\ UNCHANGED <<keyPattern, direction, outKey>>
    /\ UNCHANGED <<setVars, notVec>>

StartKey ==
    /\ vStatus = "ok"
    /\ outKey' = [of |-> "startKey", key |-> startKey(vRanges)]
    /\ UNCHANGED <<keyPattern, direction, vRanges, vStatus>>
    /\ UNCHANGED <<setVars, notVec>>

EndKey ==
    /\ vStatus = "ok"
    /\ outKey' = [of |-> "endKey", key |-> endKey(vRanges)]
    /\ UNCHANGED <<keyPattern, direction, vRanges, vStatus>>
    /\ UNCHANGED <<setVars, notVec>>

NextVector ==
    \/ Construct
    \/ StartKey
    \/ EndKey

SpecVector == InitVector /\ [][NextVector]_vars

\* The key pattern with every number negated.
Negated(kp) == [k \in 1 .. Len(kp) |-> [kp[k] EXCEPT !.number = -kp[k].number]]

\* C9: the range of a key field is taken as is when the signs of the key
\* direction and of the scan direction agree (0 counting as positive, as
\* number >= 0 and direction >= 0 in the constructor) and is reversed when
\* they differ: the intervals in descending order, lower and upper swapped
\* with their inclusivity.  For a reversed field startKey() holds the
\* original range's maximum and endKey() its minimum.  Index {f: -1} scanned
\* with direction -1 gives the ranges of index {f: 1} scanned with +1.
C9_DirectionDecidesReversal ==
    vStatus = "ok" =>
        /\ Len(vRanges) = Len(keyPattern)
        /\ \A k \in 1 .. Len(keyPattern) :
              LET orig == rangeOf(a, keyPattern[k].field, TrivialRange)
                  agree == (keyPattern[k].number >= 0) <=> (direction >= 0)
                  n == Len(orig)
              IN  /\ agree => vRanges[k] = orig
                  /\ ~agree =>
                        /\ Len(vRanges[k]) = n
                        /\ \A m \in 1 .. n :
                              /\ vRanges[k][m].lower = orig[n + 1 - m].upper
                              /\ vRanges[k][m].upper = orig[n + 1 - m].lower
                  /\ (outKey # <<>> /\ outKey.of = "startKey") =>
                        outKey.key[k] = IF agree THEN min(orig) ELSE max(orig)
                  /\ (outKey # <<>> /\ outKey.of = "endKey") =>
                        outKey.key[k] = IF agree THEN max(orig) ELSE min(orig)
        /\ (direction < 0 /\ \A k \in 1 .. Len(keyPattern) : keyPattern[k].number < 0) =>
              vRanges = VectorRanges(a, TrivialRange, Negated(keyPattern), 1)

\* startKey() was taken of a vector with a reversed field whose range has
\* more than one interval.
C9_Witness ==
    /\ vStatus = "ok"
    /\ outKey # <<>> /\ outKey.of = "startKey"
    /\ \E k \in 1 .. Len(keyPattern) :
          /\ keyPattern[k].number < 0
          /\ direction > 0
          /\ Len(vRanges[k]) > 1
          /\ outKey.key[k] = max(a[keyPattern[k].field])
          /\ outKey.key[k] # min(a[keyPattern[k].field])

----------------------------------------------------------------------------
(* QueryPattern *)

\* enum QueryPattern::Type
Equality == 0
LowerBound == 1
UpperBound == 2
UpperAndLowerBound == 3
Types == {Equality, LowerBound, UpperBound, UpperAndLowerBound}

\* e.number() of the elements of a sort specification.
SortNumbers == {-1, 0, 1}

\* Sort specifications: objects with distinct field names.
SortSpecs ==
    UNION {{sp \in [1 .. n -> [name : Fields, number : SortNumbers]] :
               \A i, j \in 1 .. n : i # j => sp[i].name # sp[j].name} :
           n \in 0 .. Cardinality(Fields)}

\* normalizeSort that flips the first component only and appends the others
\* as they are.
normalizeSortFirstOnly(spec) ==
    [k \in 1 .. Len(spec) |->
        [name |-> spec[k].name,
         number |-> IF k = 1 THEN -1 ELSE spec[k].number]]

\* BSONObj static normalizeSort( const BSONObj &spec )
normalizeSort(spec) ==
    IF Len(spec) = 0 THEN spec
    ELSE LET dir == IF spec[1].number >= 0 THEN 1 ELSE -1
         IN  [k \in 1 .. Len(spec) |->
                 [name |-> spec[k].name,
                  number |-> dir * (IF spec[k].number >= 0 THEN -1 ELSE 1)]]

\* BSONObj::woCompare on two sort objects: element by element, field name
\* first and value second; an object that ends first is smaller.
RECURSIVE sortCompare(_, _, _)
sortCompare(l, r, k) ==
    IF k > Len(l) THEN (IF k > Len(r) THEN 0 ELSE -1)
    ELSE IF k > Len(r) THEN 1
    ELSE IF l[k].name # r[k].name THEN woCompare(l[k].name, r[k].name)
    ELSE IF l[k].number # r[k].number THEN woCompare(l[k].number, r[k].number)
    ELSE sortCompare(l, r, k + 1)

\* The patterns of the model: _fieldTypes and the _sort that setSort stored.
Patterns ==
    {[fieldTypes |-> ft, sort |-> normalizeSort(sp)] :
        ft \in UNION {[D -> Types] : D \in SUBSET Fields}, sp \in SortSpecs}

\* operator< whose loop returns true, not false, when other's map ends first.
RECURSIVE LessWalkLongerIsLess(_, _, _, _, _)
LessWalkLongerIsLess(this, other, ki, kj, i) ==
    IF i <= Len(ki)
    THEN IF i > Len(kj) THEN TRUE
         ELSE IF ki[i] < kj[i] THEN TRUE
         ELSE IF ki[i] > kj[i] THEN FALSE
         ELSE IF this.fieldTypes[ki[i]] < other.fieldTypes[kj[i]] THEN TRUE
         ELSE IF this.fieldTypes[ki[i]] > other.fieldTypes[kj[i]] THEN FALSE
         ELSE LessWalkLongerIsLess(this, other, ki, kj, i + 1)
    ELSE IF i <= Len(kj) THEN TRUE
    ELSE sortCompare(this.sort, other.sort, 1) < 0

\* The loop of operator<: i and j advance together, so one index serves.
RECURSIVE LessWalk(_, _, _, _, _)
LessWalk(this, other, ki, kj, i) ==
    IF i <= Len(ki)
    THEN IF i > Len(kj) THEN FALSE
         ELSE IF ki[i] < kj[i] THEN TRUE
         ELSE IF ki[i] > kj[i] THEN FALSE
         ELSE IF this.fieldTypes[ki[i]] < other.fieldTypes[kj[i]] THEN TRUE
         ELSE IF this.fieldTypes[ki[i]] > other.fieldTypes[kj[i]] THEN FALSE
         ELSE LessWalk(this, other, ki, kj, i + 1)
    ELSE IF i <= Len(kj) THEN TRUE
    ELSE sortCompare(this.sort, other.sort, 1) < 0

\* bool operator<( const QueryPattern &other ) const
Less(this, other) ==
    LessWalk(this, other, SortedKeys(DOMAIN this.fieldTypes),
             SortedKeys(DOMAIN other.fieldTypes), 1)

----------------------------------------------------------------------------
(* Specification SpecPattern: operator== on two QueryPatterns *)

InitPattern ==
    /\ qp \in Patterns
    /\ otherQp \in Patterns
    /\ cmpResult = <<>>
    /\ IdleFR /\ IdleSet /\ IdleVec /\ IdleSize /\ IdleOr /\ IdleIt /\ IdleCache
    /\ IdleSort /\ IdleAdv

\* bool operator==( const QueryPattern &other ) const
PatternEquals ==
    /\ cmpResult = <<>>
    /\ LET less == Less(qp, otherQp)
           more == Less(otherQp, qp)
       IN  cmpResult' = [less |-> less, more |-> more,
                         assertFailed |-> less /\ more,
                         equal |-> ~(less \/ more)]
    /\ UNCHANGED <<qp, otherQp>>
    /\ UNCHANGED notPat

NextPattern == PatternEquals

SpecPattern == InitPattern /\ [][NextPattern]_vars

\* The (field name, Type) pairs of a pattern in map order.
Pairs(pat) ==
    LET ks == SortedKeys(DOMAIN pat.fieldTypes)
    IN  [k \in 1 .. Len(ks) |-> <<ks[k], pat.fieldTypes[ks[k]]>>]

PairLess(x, y) == x[1] < y[1] \/ (x[1] = y[1] /\ x[2] < y[2])

\* Lexicographic order of two sequences of pairs: they agree up to a place
\* where the first ends and the second goes on, or holds a smaller pair.
LexLess(s, t) ==
    \E k \in 1 .. Len(t) :
        /\ k <= Len(s) + 1
        /\ \A m \in 1 .. k - 1 : s[m] = t[m]
        /\ k = Len(s) + 1 \/ PairLess(s[k], t[k])

\* C8: operator< orders patterns lexicographically by their (field name,
\* Type) pairs, a proper prefix being smaller, and by the normalized sort
\* when the maps are equal; it is irreflexive, asymmetric, transitive and
\* total, the assertion in operator== does not fail, and operator== holds
\* exactly when the maps and the sorts are equal.
C8_LessIsStrictTotalOrder ==
    cmpResult # <<>> =>
        /\ cmpResult.less <=>
              \/ LexLess(Pairs(qp), Pairs(otherQp))
              \/ (qp.fieldTypes = otherQp.fieldTypes /\ sortCompare(qp.sort, otherQp.sort, 1) < 0)
        /\ ~Less(qp, qp)
        /\ ~(cmpResult.less /\ cmpResult.more)
        /\ \A r \in Patterns : (cmpResult.less /\ Less(otherQp, r)) => Less(qp, r)
        /\ qp # otherQp => (cmpResult.less \/ cmpResult.more)
        /\ ~cmpResult.assertFailed
        /\ cmpResult.equal <=> (qp.fieldTypes = otherQp.fieldTypes /\ qp.sort = otherQp.sort)

\* Two patterns with the same non-empty field types were compared and told
\* apart by their sorts alone.
C8_Witness ==
    /\ cmpResult # <<>>
    /\ cmpResult.less
    /\ qp.fieldTypes = otherQp.fieldTypes
    /\ DOMAIN qp.fieldTypes # {}
    /\ Len(qp.sort) = Len(otherQp.sort)

----------------------------------------------------------------------------
(* FieldRangeOrSet *)

\* bool orFinished() const, _orFound being true for a query with an $or.
orFinished(sets) == Len(sets) = 0

\* FieldRangeSet *topFrs() const
topFrs(base, sets) ==
    IF Len(sets) > 0 THEN FieldRangeSetAnd(base, sets[1]) ELSE base

\* FieldRangeSet *topFrsOriginal() const
topFrsOriginal(base, originals) ==
    IF Len(originals) > 0 THEN FieldRangeSetAnd(base, originals[1]) ELSE base

\* FieldRangeSet *subset( fields ): the set restricted to the named fields.
subset(frs, fields) == [f \in DOMAIN frs \cap fields |-> frs[f]]

\* popOrClause( indexSpec ): _orSets afterwards.  The front clause is
\* removed; when an index spec is given, the front clause's range, projected
\* to the index fields, is subtracted from every remaining clause.
popOrClause(sets, indexSpec) ==
    [k \in 1 .. Len(sets) - 1 |->
        IF indexSpec = {} THEN sets[k + 1]
        ELSE FieldRangeSetMinus(sets[k + 1], subset(sets[1], indexSpec))]

----------------------------------------------------------------------------
(* Specification SpecOr: topFrs(), popOrClause( indexSpec ), ... until      *)
(* orFinished()                                                             *)

\* The largest number of $or clauses.
MaxClauses == 3

\* The ranges of the fields of an $or clause: below each ordinary value, and
\* from the smallest one up, so that clauses nest, overlap and lie apart.
ClauseRanges ==
    {FieldRangeOf("$lt", v, FALSE) : v \in OrdinaryVals}
        \cup {FieldRangeOf("$gte", v, FALSE) :
                 v \in {w \in OrdinaryVals : \A u \in OrdinaryVals : w <= u}}

ClauseSets == UNION {[D -> ClauseRanges] : D \in SUBSET Fields}

\* The base query: no constraint, or one field below the largest ordinary value.
BaseSets ==
    {<<>>} \cup {[f \in {g} |-> FieldRangeOf("$lt", v, FALSE)] :
                    g \in Fields,
                    v \in {w \in OrdinaryVals : \A u \in OrdinaryVals : u <= w}}

\* The fields of the index specs given to popOrClause: {} is the default
\* argument, the empty object.
IndexSpecs == SUBSET Fields

InitOr ==
    /\ baseSet \in BaseSets
    /\ orSets \in UNION {[1 .. n -> ClauseSets] : n \in 1 .. MaxClauses}
    /\ originalOrSets = orSets
    /\ orClauses = orSets
    /\ top = <<>>
    /\ orPc = "top"
    /\ seenTop = <<>>
    /\ seenIndex = <<>>
    /\ IdleFR /\ IdleSet /\ IdleVec /\ IdleSize /\ IdlePat /\ IdleIt /\ IdleCache
    /\ IdleSort /\ IdleAdv

TopFrs ==
    /\ orPc = "top"
    /\ top' = <<topFrs(baseSet, orSets)>>
    /\ orPc' = "pop"
    /\ UNCHANGED <<baseSet, orSets, originalOrSets, orClauses, seenTop, seenIndex>>
    /\ UNCHANGED notOr

PopOrClause ==
    /\ orPc = "pop"
    /\ \E indexSpec \in IndexSpecs :
          /\ orSets' = popOrClause(orSets, indexSpec)
          /\ seenTop' = Append(seenTop, top[1])
          /\ seenIndex' = Append(seenIndex,
                IF indexSpec = {} THEN top[1] ELSE subset(top[1], indexSpec))
    /\ originalOrSets' = Tail(originalOrSets)
    /\ top' = <<>>
    /\ orPc' = IF orFinished(orSets') THEN "done" ELSE "top"
    /\ UNCHANGED <<baseSet, orClauses>>
    /\ UNCHANGED notOr

NextOr ==
    \/ TopFrs
    \/ PopOrClause

SpecOr == InitOr /\ [][NextOr]_vars

\* The documents that some FieldRangeSet of a list admits.
AdmittedBySome(sets) ==
    {doc \in Documents : \E k \in 1 .. Len(sets) : Admits(sets[k], doc)}

\* The documents of the query: they satisfy the base set and some clause.
OrResults ==
    {doc \in Documents :
        /\ Admits(baseSet, doc)
        /\ \E k \in 1 .. Len(orClauses) : Admits(orClauses[k], doc)}

----------------------------------------------------------------------------
(* FieldRangeVector::Iterator *)

\* The keys of an index on the key fields, and the scanner's position once
\* it has passed the last key.
Keys == [Fields -> Points]
PastEnd == <<>>

\* Index order of two keys, every key field ascending.
KeyLess(x, y) ==
    \E k \in Fields : x[k] < y[k] /\ \A j \in 1 .. k - 1 : x[j] = y[j]

\* The interval of r that holds e, 0 when none does.
containing(r, e) ==
    IF \E m \in 1 .. Len(r) : e \in IntervalPoints(r[m])
    THEN CHOOSE m \in 1 .. Len(r) : e \in IntervalPoints(r[m])
    ELSE 0

\* The first interval of r that lies wholly above e, 0 when e is above all.
following(r, e) ==
    LET above == {m \in 1 .. Len(r) : \A q \in IntervalPoints(r[m]) : e < q}
    IN  IF above = {} THEN 0 ELSE CHOOSE m \in above : \A o \in above : m <= o

\* A seek hint whose element k is the lower bound of the interval before m,
\* the one curr[k] has left behind.
seekHintStale(v, it, k, m) ==
    [ret |-> k - 1,
     i |-> [j \in 1 .. Len(v) |->
              IF j < k THEN it.i[j] ELSE IF j = k THEN m ELSE 1],
     cmp |-> [j \in 1 .. Len(v) |->
              IF j < k THEN it.cmp[j]
              ELSE IF j = k THEN v[k][IF m > 1 THEN m - 1 ELSE m].lower.bound
              ELSE v[j][1].lower.bound],
     inc |-> [j \in 1 .. Len(v) |->
              IF j < k THEN it.inc[j]
              ELSE IF j = k THEN v[k][m].lower.inclusive
              ELSE v[j][1].lower.inclusive],
     after |-> FALSE]

\* The hint to seek to interval m of key field k: the elements before k come
\* from curr, element k is the interval's lower bound, the later elements
\* are the lower bounds of the first intervals.
seekHint(v, it, k, m) ==
    [ret |-> k - 1,
     i |-> [j \in 1 .. Len(v) |->
              IF j < k THEN it.i[j] ELSE IF j = k THEN m ELSE 1],
     cmp |-> [j \in 1 .. Len(v) |->
              IF j < k THEN it.cmp[j]
              ELSE IF j = k THEN v[k][m].lower.bound ELSE v[j][1].lower.bound],
     inc |-> [j \in 1 .. Len(v) |->
              IF j < k THEN it.inc[j]
              ELSE IF j = k THEN v[k][m].lower.inclusive
              ELSE v[j][1].lower.inclusive],
     after |-> FALSE]

\* The hint to skip past the keys that begin as curr does up to key field k,
\* whose element k is an excluded lower bound: the later elements are the
\* greatest there are.
skipHint(v, it, k, m) ==
    [ret |-> k,
     i |-> [j \in 1 .. Len(v) |->
              IF j < k THEN it.i[j] ELSE IF j = k THEN m ELSE 1],
     cmp |-> [j \in 1 .. Len(v) |-> IF j <= k THEN it.cmp[j] ELSE MAX_KEY],
     inc |-> [j \in 1 .. Len(v) |-> IF j <= k THEN it.inc[j] ELSE TRUE],
     after |-> TRUE]

\* curr[k] is above every interval of key field k: the nearest earlier key
\* field whose _i can advance moves to its next interval, or the scan is over.
carry(v, it, k) ==
    LET canAdvance == {j \in 1 .. k - 1 : it.i[j] < Len(v[j])}
    IN  IF canAdvance = {} THEN [it EXCEPT !.ret = -2]
        ELSE LET j == CHOOSE n \in canAdvance : \A o \in canAdvance : o <= n
             IN  seekHint(v, it, j, it.i[j] + 1)

\* int advance( const BSONObj &curr ), from key field k on.
RECURSIVE advanceFrom(_, _, _, _)
advanceFrom(v, c, it, k) ==
    IF k > Len(v) THEN [it EXCEPT !.ret = -1]
    ELSE LET m == containing(v[k], c[k])
             nx == following(v[k], c[k])
         IN  IF m > 0 THEN advanceFrom(v, c, [it EXCEPT !.i[k] = m], k + 1)
             ELSE IF nx = 0 THEN carry(v, it, k)
             ELSE IF c[k] = v[k][nx].lower.bound THEN skipHint(v, it, k, nx)
             ELSE seekHint(v, it, k, nx)

advanceCurr(v, c, it) == advanceFrom(v, c, it, 1)

\* The key of a hint r >= 0: the first r elements of curr, then cmp()[r..].
hintKey(c, r, cmp) == [j \in DOMAIN c |-> IF j <= r THEN c[j] ELSE cmp[j]]

\* Where a scanner sitting on key c of a sorted index can come to sit when it
\* seeks to key t, or past it: on the first key of the index that is not
\* below t (that is above t), which is c or a key before c when c is such a
\* key, and past the last key when the index has none.
seekResults(c, t, past) ==
    LET reached(key) == IF past THEN KeyLess(t, key) ELSE ~KeyLess(key, t)
    IN  IF reached(c) THEN {key \in Keys : reached(key) /\ ~KeyLess(c, key)}
        ELSE {key \in Keys : reached(key)} \cup {PastEnd}

----------------------------------------------------------------------------
(* Specification SpecIter: a scanner over a sorted index driven by            *)
(* advance( curr )                                                          *)

\* The ranges of the key fields: every value, one value, values up to and
\* including a bound, values above an excluded bound, and two intervals
\* around an excluded value.
IterRanges ==
    {TrivialRange} \cup
    {FieldRangeOf(op, v, FALSE) :
        op \in {"$eq", "$lte", "$gt", "$ne"}, v \in OrdinaryVals}

InitIter ==
    /\ itRanges \in [Fields -> IterRanges]
    /\ curr \in Keys
    /\ it_i = [k \in Fields |-> 0]
    /\ it_cmp = [k \in Fields |-> MIN_KEY]
    /\ it_inc = [k \in Fields |-> FALSE]
    /\ it_after = FALSE
    /\ itRet = -3
    /\ itPc = "advance"
    /\ IdleFR /\ IdleSet /\ IdleVec /\ IdleSize /\ IdlePat /\ IdleOr /\ IdleCache
    /\ IdleSort /\ IdleAdv

Advance ==
    /\ itPc = "advance"
    /\ LET it == advanceCurr(itRanges, curr,
                    [ret |-> itRet, i |-> it_i, cmp |-> it_cmp,
                     inc |-> it_inc, after |-> it_after])
       IN  /\ itRet' = it.ret
           /\ it_i' = it.i
           /\ it_cmp' = it.cmp
           /\ it_inc' = it.inc
           /\ it_after' = it.after
           /\ itPc' = IF it.ret = -2 THEN "done" ELSE "move"
    /\ UNCHANGED <<itRanges, curr>>
    /\ UNCHANGED notIt

\* On -1 the scanner moves to the next key of the index.
ScannerNext ==
    /\ itPc = "move"
    /\ itRet = -1
    /\ curr' \in {key \in Keys : KeyLess(curr, key)} \cup {PastEnd}
    /\ itPc' = IF curr' = PastEnd THEN "done" ELSE "advance"
    /\ UNCHANGED <<itRanges, it_i, it_cmp, it_inc, it_after, itRet>>
    /\ UNCHANGED notIt

\* On r >= 0 the scanner seeks to the key of the hint, or past it.
ScannerSeek ==
    /\ itPc = "move"
    /\ itRet >= 0
    /\ curr' \in seekResults(curr, hintKey(curr, itRet, it_cmp), it_after)
    /\ itPc' = IF curr' = PastEnd THEN "done" ELSE "advance"
    /\ UNCHANGED <<itRanges, it_i, it_cmp, it_inc, it_after, itRet>>
    /\ UNCHANGED notIt

NextIter ==
    \/ Advance
    \/ ScannerNext
    \/ ScannerSeek

\* The scanner goes on calling and moving until the scan is over.
SpecIter == InitIter /\ [][NextIter]_vars /\ WF_vars(NextIter)

\* The key of the next call is above the key of the last one.
KeysIncrease ==
    itPc = "move" /\ itPc' = "advance" => KeyLess(curr, curr')

\* C2 (as claimed): the keys passed as curr on successive calls strictly
\* increase in index order, and the calls end with a return of -2.
C2_Original == [][KeysIncrease]_vars /\ <>(itRet = -2)

\* C2 (amended): the keys passed as curr on successive calls strictly
\* increase in index order, and the calls end after finitely many: with a
\* return of -2, or with the scanner past the last key of the index.
C2_IncreasingUntilScanEnds ==
    [][KeysIncrease]_vars /\ <>(itRet = -2 \/ curr = PastEnd)

\* A scan that skipped past an excluded lower bound, came to step from key
\* to key, and ended past the last key without a return of -2.
C2_Witness ==
    /\ itPc = "done"
    /\ curr = PastEnd
    /\ it_after
    /\ itRet = -1

----------------------------------------------------------------------------
(* FieldInterval::equality() and its cache *)

\* bool FieldRange::equality() const
equality(r) ==
    /\ ~empty(r)
    /\ woCompare(min(r), max(r)) = 0
    /\ maxInclusive(r)
    /\ minInclusive(r)

\* _cachedEquality after bool FieldInterval::equality() const.
cachedEqualityAfter(fi, cached) ==
    IF cached = -1
    THEN IF /\ fi.lower.inclusive
            /\ fi.upper.inclusive
            /\ woCompare(fi.lower.bound, fi.upper.bound) = 0
         THEN 1 ELSE 0
    ELSE cached

\* What bool FieldInterval::equality() const returns: the cache, as a bool.
intervalEquality(fi, cached) == cachedEqualityAfter(fi, cached) # 0

\* The loop of inQuery() from interval k on: the caches afterwards and the
\* value returned.
RECURSIVE inQueryLoop(_, _, _)
inQueryLoop(r, cached, k) ==
    IF k > Len(r) THEN [cached |-> cached, value |-> TRUE]
    ELSE LET after == [cached EXCEPT ![k] = cachedEqualityAfter(r[k], cached[k])]
         IN  IF ~intervalEquality(r[k], cached[k])
             THEN [cached |-> after, value |-> FALSE]
             ELSE inQueryLoop(r, after, k + 1)

\* bool FieldRange::inQuery() const
inQuery(r, cached) ==
    IF equality(r) THEN [cached |-> cached, value |-> TRUE]
    ELSE inQueryLoop(r, cached, 1)

----------------------------------------------------------------------------
(* Specification SpecCache: equality() and inQuery() between changes of the *)
(* bounds of a range's intervals                                            *)

\* The ranges under test: those of one predicate atom, and those of an $in
\* of two values.
CacheRanges ==
    ConstructedRanges \cup
    {FieldRangeOr(FieldRangeOf("$eq", v, FALSE), FieldRangeOf("$eq", w, FALSE)) :
        v, w \in OrdinaryVals}

InitCache ==
    /\ range \in CacheRanges
    /\ frOp = "construct"
    /\ cachedEquality = [k \in 1 .. Len(range) |-> -1]
    /\ eqResult = <<>>
    /\ IdleSet /\ IdleVec /\ IdleSize /\ IdlePat /\ IdleOr /\ IdleIt
    /\ IdleSort /\ IdleAdv

CacheIntervalEquality ==
    \E k \in 1 .. Len(range) :
        /\ cachedEquality' =
              [cachedEquality EXCEPT
                  ![k] = cachedEqualityAfter(range[k], cachedEquality[k])]
        /\ eqResult' = [interval |-> k,
                        value |-> intervalEquality(range[k], cachedEquality[k])]
        /\ frOp' = "equality"
        /\ UNCHANGED range
        /\ UNCHANGED notCache

CacheInQuery ==
    /\ cachedEquality' = inQuery(range, cachedEquality).cached
    /\ eqResult' = [interval |-> 0, value |-> inQuery(range, cachedEquality).value]
    /\ frOp' = "inQuery"
    /\ UNCHANGED range
    /\ UNCHANGED notCache

CacheSetExclusiveBounds ==
    /\ range' = setExclusiveBounds(range)
    /\ frOp' = "setExclusiveBounds"
    /\ UNCHANGED cacheVars
    /\ UNCHANGED notCache

CacheFlipInclusive ==
    \E k \in 1 .. Len(range) :
        /\ \/ range' = [range EXCEPT ![k].lower = flipInclusive(range[k].lower)]
           \/ range' = [range EXCEPT ![k].upper = flipInclusive(range[k].upper)]
        /\ frOp' = "flipInclusive"
        /\ UNCHANGED cacheVars
        /\ UNCHANGED notCache

NextCache ==
    \/ CacheIntervalEquality
    \/ CacheInQuery
    \/ CacheSetExclusiveBounds
    \/ CacheFlipInclusive

SpecCache == InitCache /\ [][NextCache]_vars

\* The interval's bounds, as they are now, are both inclusive and equal.
IsEquality(fi) ==
    fi.lower.inclusive /\ fi.upper.inclusive /\ fi.lower.bound = fi.upper.bound

\* C13 (as claimed): whatever equality() queries and changes of bounds went
\* before, FieldInterval::equality() returns true exactly when the
\* interval's bounds are now both inclusive and equal, and inQuery() returns
\* true exactly when that is so for every interval.
C13_EqualityFollowsCurrentBounds ==
    /\ frOp = "equality" =>
          (eqResult.value <=> IsEquality(range[eqResult.interval]))
    /\ frOp = "inQuery" =>
          (eqResult.value <=> \A k \in 1 .. Len(range) : IsEquality(range[k]))

----------------------------------------------------------------------------
(* Specification SpecSort: normalizeSort on a sort specification, on its    *)
(* own result and on the specification's negation                           *)

\* e.number() of the elements of the specifications given to normalizeSort.
SortDirections == {-2, -1, 0, 1, 2}

SortInputs ==
    UNION {{sp \in [1 .. n -> [name : Fields, number : SortDirections]] :
               \A i, j \in 1 .. n : i # j => sp[i].name # sp[j].name} :
           n \in 0 .. Cardinality(Fields)}

\* The component-wise negation of a sort specification.
NegatedSort(spec) ==
    [k \in 1 .. Len(spec) |-> [name |-> spec[k].name, number |-> -spec[k].number]]

InitSort ==
    /\ sortSpec \in SortInputs
    /\ sortOp = "input"
    /\ sortOut = <<>>
    /\ IdleFR /\ IdleSet /\ IdleVec /\ IdleSize /\ IdlePat /\ IdleOr /\ IdleIt
    /\ IdleCache /\ IdleAdv

NormalizeSort ==
    /\ sortOp = "input"
    /\ sortOut' = normalizeSort(sortSpec)
    /\ sortOp' = "spec"
    /\ UNCHANGED sortSpec
    /\ UNCHANGED notSort

NormalizeAgain ==
    /\ sortOp = "spec"
    /\ sortOut' = normalizeSort(sortOut)
    /\ sortOp' = "result"
    /\ UNCHANGED sortSpec
    /\ UNCHANGED notSort

NormalizeNegation ==
    /\ sortOp = "input"
    /\ sortOut' = normalizeSort(NegatedSort(sortSpec))
    /\ sortOp' = "negation"
    /\ UNCHANGED sortSpec
    /\ UNCHANGED notSort

NextSort ==
    \/ NormalizeSort
    \/ NormalizeAgain
    \/ NormalizeNegation

SpecSort == InitSort /\ [][NextSort]_vars

Sign(n) == IF n > 0 THEN 1 ELSE IF n < 0 THEN -1 ELSE 0

\* What C15 says of the results of normalizeSort for the specification
\* sortSpec: the same names in the same order, a negative first component,
\* every component's sign relative to the first as in sortSpec; the
\* negation's result and the result's result are the specification's result.
NormalizeSortContract ==
    /\ sortOp = "spec" =>
          /\ Len(sortOut) = Len(sortSpec)
          /\ \A k \in 1 .. Len(sortSpec) : sortOut[k].name = sortSpec[k].name
          /\ sortOut[1].number < 0
          /\ \A k \in 1 .. Len(sortSpec) :
                (Sign(sortOut[k].number) = Sign(sortOut[1].number)) <=>
                (Sign(sortSpec[k].number) = Sign(sortSpec[1].number))
    /\ sortOp = "negation" => sortOut = normalizeSort(sortSpec)
    /\ sortOp = "result" => sortOut = normalizeSort(sortSpec)

\* C15 (as claimed): the contract holds for every non-empty sort
\* specification with numeric directions.
C15_Original == Len(sortSpec) > 0 => NormalizeSortContract

\* C15 (amended): the contract holds for every non-empty sort specification
\* whose directions are numbers other than zero.
C15_NormalizeSortOfNonzeroDirections ==
    (Len(sortSpec) > 0 /\ \A k \in 1 .. Len(sortSpec) : sortSpec[k].number # 0)
        => NormalizeSortContract

\* The negation of a specification of two fields with opposite directions,
\* the first one positive, was normalized.
C15_Witness ==
    /\ sortOp = "negation"
    /\ Len(sortSpec) = 2
    /\ sortSpec[1].number > 0
    /\ sortSpec[2].number < 0
    /\ sortOut # NegatedSort(sortSpec)

----------------------------------------------------------------------------
(* FieldRangeVector::Iterator: the enumeration of interval tuples *)

\* void setZero( int i ), the indexes counted from 1.
setZero(iv, i) == [j \in 1 .. Len(iv) |-> IF j >= i THEN 1 ELSE iv[j]]

\* bool ok()
ok(v, iv) == iv[1] < Len(v[1]) + 1

\* advance() that leaves the indexes after the advanced one as they are.
advanceNoReset(v, iv) ==
    LET notLast == {k \in 1 .. Len(iv) : ~(iv[k] >= Len(v[k]))}
    IN  IF notLast # {}
        THEN LET i == CHOOSE k \in notLast : \A o \in notLast : o <= k
             IN  [iv EXCEPT ![i] = iv[i] + 1]
        ELSE [iv EXCEPT ![1] = Len(v[1]) + 1]

\* bool advance(): _i afterwards.  The loop stops at the last field whose
\* index is before its last interval.
advance(v, iv) ==
    LET notLast == {k \in 1 .. Len(iv) : ~(iv[k] >= Len(v[k]))}
    IN  IF notLast # {}
        THEN LET i == CHOOSE k \in notLast : \A o \in notLast : o <= k
             IN  [j \in 1 .. Len(iv) |->
                     IF j < i THEN iv[j] ELSE IF j = i THEN iv[i] + 1 ELSE 1]
        ELSE [iv EXCEPT ![1] = Len(v[1]) + 1]

----------------------------------------------------------------------------
(* Specification SpecAdvance: setZero( 0 ), then advance() again and again  *)

\* The ranges of the key fields: of one, two and three intervals.
AdvanceRanges ==
    IterRanges \cup
    {FieldRangeAnd(FieldRangeOf("$ne", v, FALSE), FieldRangeOf("$ne", w, FALSE)) :
        v, w \in OrdinaryVals}

InitAdvance ==
    /\ itRanges \in UNION {[1 .. n -> AdvanceRanges] : n \in Fields}
    /\ it_i = [k \in 1 .. Len(itRanges) |-> 0]
    /\ curr = <<>> /\ it_cmp = <<>> /\ it_inc = <<>> /\ it_after = FALSE
    /\ itRet = -3 /\ itPc = "idle"
    /\ advTuples = <<>>
    /\ advTrue = 0
    /\ advRet = <<>>
    /\ IdleFR /\ IdleSet /\ IdleVec /\ IdleSize /\ IdlePat /\ IdleOr
    /\ IdleCache /\ IdleSort

SetZero ==
    /\ advTuples = <<>>
    /\ it_i' = setZero(it_i, 1)
    /\ advTuples' = <<it_i'>>
    /\ UNCHANGED <<itRanges, advTrue, advRet>>
    /\ UNCHANGED notAdv

AdvanceTuple ==
    /\ advTuples # <<>>
    /\ it_i' = advance(itRanges, it_i)
    /\ advRet' = <<ok(itRanges, it_i')>>
    /\ advTrue' = IF ok(itRanges, it_i') THEN advTrue + 1 ELSE advTrue
    /\ advTuples' = IF ok(itRanges, it_i') THEN Append(advTuples, it_i')
                    ELSE advTuples
    /\ UNCHANGED itRanges
    /\ UNCHANGED notAdv

NextAdvance ==
    \/ SetZero
    \/ AdvanceTuple

SpecAdvance == InitAdvance /\ [][NextAdvance]_vars

\* The tuples of interval indexes, every index inside its field's list.
IntervalTuples ==
    LET lens == {Len(itRanges[k]) : k \in 1 .. Len(itRanges)}
        most == CHOOSE m \in lens : \A l \in lens : l <= m
    IN  {t \in [1 .. Len(itRanges) -> 1 .. most] :
            \A k \in 1 .. Len(itRanges) : t[k] <= Len(itRanges[k])}

\* Lexicographic order of two tuples of indexes.
TupleLess(s, t) ==
    \E k \in 1 .. Len(s) : s[k] < t[k] /\ \A j \in 1 .. k - 1 : s[j] = t[j]

\* C14: from all indexes zero, advance() steps through every tuple of
\* interval indexes exactly once in lexicographic order, every index inside
\* its field's interval list; it returns true for each of the size() - 1
\* further tuples and false on the call after the last one; once ok() is
\* false it stays false under further calls.
C14_AdvanceEnumeratesTuples ==
    /\ [](advTuples # <<>> =>
            /\ \A k \in 1 .. Len(advTuples) : advTuples[k] \in IntervalTuples
            /\ \A k \in 1 .. Len(advTuples) - 1 :
                  /\ TupleLess(advTuples[k], advTuples[k + 1])
                  /\ ~\E t \in IntervalTuples :
                        TupleLess(advTuples[k], t) /\ TupleLess(t, advTuples[k + 1])
            /\ \A t \in IntervalTuples : ~TupleLess(t, advTuples[1])
            /\ advTrue = Len(advTuples) - 1
            /\ ok(itRanges, it_i) =>
                  /\ it_i = advTuples[Len(advTuples)]
                  /\ advRet # <<>> => advRet[1]
            /\ ~ok(itRanges, it_i) =>
                  /\ Len(advTuples) = Cardinality(IntervalTuples)
                  /\ advRet = <<FALSE>>)
    /\ [][(advTuples # <<>> /\ ~ok(itRanges, it_i)) =>
             (~ok(itRanges, it_i') /\ advRet' = <<FALSE>>)]_vars

\* advance() went through two fields of more than one interval each, reset
\* the second index on the way, and has returned false after the last tuple.
C14_Witness ==
    /\ advRet = <<FALSE>>
    /\ Len(itRanges) = 2
    /\ Len(itRanges[1]) = 2
    /\ Len(itRanges[2]) = 3
    /\ advTrue = 5

====
